---- MODULE Spec2Model ----
(***************************************************************************)
(* Model of magic_pdf/data/dataset.py (PymuDocDataset, ImageDataset, Doc)  *)
(* and magic_pdf/pipe/operators.py (PipeResult).                           *)
(*                                                                         *)
(* dataset.py carries four mis-indented lines (33, 79, 135, 193); the     *)
(* model reads dump_to_file and draw_rect as the methods of their class,   *)
(* which is what their bodies and the abstract declarations describe.      *)
(*                                                                         *)
(* Byte strings are records: an image is [fmt |-> "img", ...], a paged     *)
(* document is [fmt |-> "pdf", pages |-> n, ...].  A decoded document      *)
(* (fitz.Document) is the sequence of its page surfaces, a surface being   *)
(* the sequence of stamps drawn on it.  Paths are sequences of components, *)
(* <<"out", "sub", "doc.pdf">> standing for "out/sub/doc.pdf".             *)
(***************************************************************************)
EXTENDS Integers, Sequences, FiniteSets, TLC

\* ---- bounds ------------------------------------------------------------
MaxPages == 2
NumImages == 2
MaxStamps == 1

\* ---- values ------------------------------------------------------------
OCR == "ocr"
TXT == "txt"
NoValue == "none"
Self == "dataset"

PdfInputs == {[fmt |-> "pdf", pages |-> n, img |-> 0] : n \in 1..MaxPages}
ImageInputs == {[fmt |-> "img", pages |-> 1, img |-> i] : i \in 1..NumImages}

\* fitz.open(stream=bits).convert_to_pdf(): an image becomes a one-page pdf
ConvertToPdf(bits) == [fmt |-> "pdf", pages |-> 1, img |-> bits.img]

\* fitz.open('pdf', bits): the decoded document, one clean surface per page
FitzOpen(bits) == [i \in 1..bits.pages |-> <<>>]

\* [Doc(v) for v in self._raw_fitz]: handle i wraps page i of the document
MakeRecords(doc) == [i \in 1..Len(doc) |-> i]

\* paths
Dirname(p) == SubSeq(p, 1, Len(p) - 1)
Basename(p) == p[Len(p)]
FilePaths == {<<"doc.pdf">>, <<".", "doc.pdf">>, <<"out", "doc.pdf">>,
              <<"out", "sub", "doc.pdf">>}
\* the destinations handed to dump_to_file: with and without a directory
DumpPaths == {<<"doc.pdf">>, <<"out", "sub", "doc.pdf">>}
Prefixes(d) == {SubSeq(d, 1, k) : k \in 1..Len(d)}

VARIABLES variant, rawData, dataBits, rawFitz, records, it,
          fsDirs, fsFiles, pipeRes, written, calls, ret

vars == <<variant, rawData, dataBits, rawFitz, records, it,
          fsDirs, fsFiles, pipeRes, written, calls, ret>>

dsVars == <<variant, rawData, dataBits, rawFitz, records>>

\* ---- file system --------------------------------------------------------
\* os.path.exists(dir_name)
PathExists(d, dirs) == d = <<".">> \/ d = <<"..">> \/ d \in dirs
\* os.makedirs(dir_name, exist_ok=True): '' raises FileNotFoundError
MakedirsOk(d) == d # <<>>
Makedirs(d, dirs) == dirs \cup (Prefixes(d) \ {<<".">>, <<"..">>})

\* ---- construction -------------------------------------------------------
\* PymuDocDataset.__init__
PymuDocDatasetInit(bits) ==
    [raw_fitz  |-> FitzOpen(bits),
     records   |-> MakeRecords(FitzOpen(bits)),
     data_bits |-> bits,
     raw_data  |-> bits]

\* ImageDataset.__init__
ImageDatasetInit(bits) ==
    LET pdf_bytes == ConvertToPdf(bits)
    IN [raw_fitz  |-> FitzOpen(pdf_bytes),
        records   |-> MakeRecords(FitzOpen(pdf_bytes)),
        raw_data  |-> bits,
        data_bits |-> pdf_bytes]

Result(op, arg, status, value) ==
    [op |-> op, arg |-> arg, status |-> status, value |-> value]

NoFile == [fmt |-> "absent", doc |-> <<>>]
NoText == [kind |-> "absent", body |-> <<>>]

NoIterator == [state |-> "none", pos |-> 0, out |-> <<>>]

\* analysis results: well formed ones, one without 'pdf_info', and one that
\* holds a raw bytes value, which json.dumps rejects
PipeResults ==
    {[pdf_info |-> <<"p0">>, parse_type |-> "ocr"],
     [pdf_info |-> <<"p0", "p1">>, parse_type |-> "txt"],
     [parse_type |-> "ocr"],
     [pdf_info |-> <<"p0">>, raw |-> "bytes"]}

\* no PipeResult has been constructed yet
NoPipeResult == [unset |-> TRUE]
Constructed(res) == "unset" \notin DOMAIN res

WriterPaths == {"a.out", "b.out"}

Init ==
    /\ \E v \in {"direct", "converted"} :
         \E bits \in (IF v = "direct" THEN PdfInputs ELSE ImageInputs) :
           LET ds == IF v = "direct" THEN PymuDocDatasetInit(bits)
                                     ELSE ImageDatasetInit(bits)
           IN /\ variant = v
              /\ rawData = ds.raw_data
              /\ dataBits = ds.data_bits
              /\ rawFitz = ds.raw_fitz
              /\ records = ds.records
    /\ it = NoIterator
    /\ fsDirs = {}
    /\ fsFiles = [p \in DumpPaths |-> NoFile]
    /\ pipeRes = NoPipeResult
    /\ written = [w \in WriterPaths |-> NoText]
    /\ calls = <<>>
    /\ ret = Result("init", NoValue, "ok", NoValue)

\* ---- Dataset operations -------------------------------------------------
\* mutation: a non-negative index counted from the end of the list
PyListIndexFromEnd(seq, i) ==
    IF 0 <= i /\ i < Len(seq)
    THEN [status |-> "ok", value |-> seq[Len(seq) - i]]
    ELSE IF -Len(seq) <= i /\ i < 0
         THEN [status |-> "ok", value |-> seq[Len(seq) + i + 1]]
         ELSE [status |-> "IndexError", value |-> 0]

\* Python list indexing self._records[page_id]: negative indices count from
\* the end, anything outside [-len, len) raises IndexError
PyListIndex(seq, i) ==
    IF 0 <= i /\ i < Len(seq) THEN [status |-> "ok", value |-> seq[i + 1]]
    ELSE IF -Len(seq) <= i /\ i < 0
         THEN [status |-> "ok", value |-> seq[Len(seq) + i + 1]]
         ELSE [status |-> "IndexError", value |-> 0]

PymuGetPage(recs, page_id) == PyListIndex(recs, page_id)
ImageGetPage(recs, page_id) == PyListIndex(recs, page_id)

PymuSupportedMethods == {OCR, TXT}
ImageSupportedMethods == {OCR}

\* mutation: the accessor hands back the image bytes it was built from
ImageDataBitsRaw(data_bits, raw_data) == raw_data

PymuDataBits(data_bits, raw_data) == data_bits
ImageDataBits(data_bits, raw_data) == data_bits

\* the data_bits() accessor of the dataset at hand
DataBitsOf == IF variant = "direct" THEN PymuDataBits(dataBits, rawData)
                                    ELSE ImageDataBits(dataBits, rawData)

PageIds == (-(MaxPages + 1))..(MaxPages + 1)

DsFrame == UNCHANGED <<pipeRes, written>>

\* __len__
Length ==
    /\ ret' = Result("len", NoValue, "ok", Len(records))
    /\ calls' = <<>>
    /\ UNCHANGED <<dsVars, it, fsDirs, fsFiles>>
    /\ DsFrame

\* __iter__: iter(self._records), a fresh list iterator
Iterate ==
    /\ it' = [state |-> "active", pos |-> 0, out |-> <<>>]
    /\ ret' = Result("iter", NoValue, "ok", NoValue)
    /\ calls' = <<>>
    /\ UNCHANGED <<dsVars, fsDirs, fsFiles>>
    /\ DsFrame

\* next() on the iterator returned by __iter__
IterNext ==
    /\ it.state = "active"
    /\ IF it.pos < Len(records)
       THEN /\ it' = [it EXCEPT !.pos = @ + 1,
                                !.out = Append(@, records[it.pos + 1])]
            /\ ret' = Result("next", NoValue, "ok", records[it.pos + 1])
       ELSE /\ it' = [it EXCEPT !.state = "exhausted"]
            /\ ret' = Result("next", NoValue, "StopIteration", 0)
    /\ calls' = <<>>
    /\ UNCHANGED <<dsVars, fsDirs, fsFiles>>
    /\ DsFrame

SupportedMethods ==
    /\ ret' = Result("supported_methods", NoValue, "ok",
                     IF variant = "direct" THEN PymuSupportedMethods
                                           ELSE ImageSupportedMethods)
    /\ calls' = <<>>
    /\ UNCHANGED <<dsVars, it, fsDirs, fsFiles>>
    /\ DsFrame

DataBits ==
    /\ ret' = Result("data_bits", NoValue, "ok", DataBitsOf)
    /\ calls' = <<>>
    /\ UNCHANGED <<dsVars, it, fsDirs, fsFiles>>
    /\ DsFrame

GetPage ==
    \E page_id \in PageIds :
      LET r == IF variant = "direct" THEN PymuGetPage(records, page_id)
                                     ELSE ImageGetPage(records, page_id)
      IN /\ ret' = Result("get_page", page_id, r.status, r.value)
         /\ calls' = <<>>
         /\ UNCHANGED <<dsVars, it, fsDirs, fsFiles>>
         /\ DsFrame

\* dir_name not in ('', '.', '..')
NeedsMakedirs(dir_name) == dir_name \notin {<<>>, <<".">>, <<"..">>}

\* self._raw_fitz.save(file_path): the live document, stamps included
FitzSave(doc) == [fmt |-> "pdf", doc |-> doc]

DumpToFile ==
    \E file_path \in DumpPaths :
      LET dir_name == Dirname(file_path)
      IN /\ fsDirs' = IF NeedsMakedirs(dir_name)
                      THEN Makedirs(dir_name, fsDirs) ELSE fsDirs
         /\ fsFiles' = [fsFiles EXCEPT ![file_path] = FitzSave(rawFitz)]
         /\ ret' = Result("dump_to_file", file_path, "ok", NoValue)
         /\ calls' = <<>>
         /\ UNCHANGED <<dsVars, it>>
         /\ DsFrame

\* ---- apply --------------------------------------------------------------
ArgValues == {"x", "y"}
ArgSeqs == {<<>>, <<"x">>, <<"x", "y">>, <<"y", "x">>}
KwargSets == {{}, {<<"k", "v">>}}
\* what the procedure does: return one of two values, or raise
ProcOutcomes == {"r1", "r2", "raise"}

\* mutation: the dataset appended after the arguments
PymuApplyArgsAppended(self, args) == args \o <<self>>

\* new_args = tuple([self] + list(args)); proc(*new_args, **kwargs)
PymuApplyArgs(self, args) == <<self>> \o args
\* proc(self, *args, **kwargs)
ImageApplyArgs(self, args) == <<self>> \o args

\* a call made to a collaborator, and what the collaborator returned
CallR(fn, args, kwargs, result) ==
    [fn |-> fn, args |-> args, kwargs |-> kwargs, result |-> result]
Call(fn, args, kwargs) == CallR(fn, args, kwargs, NoValue)

Apply ==
    \E args \in ArgSeqs, kwargs \in KwargSets, out \in ProcOutcomes :
      LET new_args == IF variant = "direct" THEN PymuApplyArgs(Self, args)
                                            ELSE ImageApplyArgs(Self, args)
      IN /\ calls' = <<CallR("proc", new_args, kwargs, out)>>
         /\ ret' = IF out = "raise"
                   THEN Result("apply", <<args, kwargs>>, "ProcError", NoValue)
                   ELSE Result("apply", <<args, kwargs>>, "ok", out)
         /\ UNCHANGED <<dsVars, it, fsDirs, fsFiles>>
         /\ DsFrame

\* ---- classify -----------------------------------------------------------
\* PymuDocDataset.classify: classify(self._data_bits); the heuristic is an
\* external function of the bytes, any of its two answers is possible
PymuClassify(data_bits, heuristic) ==
    [calls |-> <<CallR("classify", <<data_bits>>, {}, heuristic)>>,
     value |-> heuristic]

\* mutation: the image dataset asks the heuristic as the pdf dataset does
ImageClassifyHeuristic(data_bits, heuristic) ==
    [calls |-> <<CallR("classify", <<data_bits>>, {}, heuristic)>>,
     value |-> heuristic]

\* ImageDataset.classify: return SupportedPdfParseMethod.OCR
ImageClassify(data_bits, heuristic) ==
    [calls |-> <<>>, value |-> OCR]

Classify ==
    \E heuristic \in {OCR, TXT} :
      LET r == IF variant = "direct" THEN PymuClassify(dataBits, heuristic)
                                     ELSE ImageClassify(dataBits, heuristic)
      IN /\ calls' = r.calls
         /\ ret' = Result("classify", NoValue, "ok", r.value)
         /\ UNCHANGED <<dsVars, it, fsDirs, fsFiles>>
         /\ DsFrame

\* ---- Doc (PageHandle) ---------------------------------------------------
RECURSIVE TotalStamps(_)
TotalStamps(doc) ==
    IF doc = <<>> THEN 0 ELSE Len(Head(doc)) + TotalStamps(Tail(doc))

\* Doc.draw_rect: self._doc.draw_rect(...) stamps the wrapped page of the
\* dataset's live document
DrawRect ==
    \E h \in 1..Len(records) :
      /\ TotalStamps(rawFitz) < MaxStamps
      /\ rawFitz' = [rawFitz EXCEPT ![h] = Append(@, "rect")]
      /\ ret' = Result("draw_rect", h, "ok", NoValue)
      /\ calls' = <<>>
      /\ UNCHANGED <<variant, rawData, dataBits, records, it, fsDirs, fsFiles>>
      /\ DsFrame

\* Doc.insert_text: self._doc.insert_text(...)
InsertText ==
    \E h \in 1..Len(records) :
      /\ TotalStamps(rawFitz) < MaxStamps
      /\ rawFitz' = [rawFitz EXCEPT ![h] = Append(@, "text")]
      /\ ret' = Result("insert_text", h, "ok", NoValue)
      /\ calls' = <<>>
      /\ UNCHANGED <<variant, rawData, dataBits, records, it, fsDirs, fsFiles>>
      /\ DsFrame

DatasetNext ==
    \/ Length
    \/ Iterate
    \/ IterNext
    \/ SupportedMethods
    \/ DataBits
    \/ GetPage
    \/ DumpToFile
    \/ Apply
    \/ Classify
    \/ DrawRect
    \/ InsertText

DatasetSpec == Init /\ [][DatasetNext]_vars

\* ---- PipeResult ---------------------------------------------------------
\* attributes set by PipeResult.__init__
PipeResultAttrs == {"_pipe_res", "_dataset"}

\* self._pipe_res['pdf_info']
HasPdfInfo(res) == "pdf_info" \in DOMAIN res

\* json.dumps(obj, ensure_ascii=False, indent=4): TypeError on raw bytes
JsonSerializable(obj) == "raw" \notin DOMAIN obj
JsonDumps(obj) == [kind |-> "json", body |-> obj]

MakeModes == {"mm_markdown", "nlp_markdown"}
DropModes == {"whole_pdf"}
ImgPrefix == "images"
STANDARD_FORMAT == "standard_format"
DROP_NONE == "none"

\* what union_make hands back: the assembled content, or content json.dumps
\* cannot serialize, or an exception
AssembleOutcomes == {"ok", "unserializable", "raise"}
Assembled(pdf_info, mode, drop, prefix, outcome) ==
    IF outcome = "unserializable"
    THEN [kind |-> "assembled", body |-> <<pdf_info, mode, drop, prefix>>,
          raw |-> "bytes"]
    ELSE [kind |-> "assembled", body |-> <<pdf_info, mode, drop, prefix>>]

WriteOutcomes == {"ok", "raise"}

PipeFrame == UNCHANGED <<dsVars, it, fsFiles, pipeRes>>

\* PipeResult.__init__(pipe_res, dataset)
PipeResultInit ==
    \E pipe_res \in PipeResults :
      /\ ~Constructed(pipeRes)
      /\ pipeRes' = pipe_res
      /\ ret' = Result("pipe_result", NoValue, "ok", NoValue)
      /\ calls' = <<>>
      /\ UNCHANGED <<dsVars, it, fsDirs, fsFiles, written>>

\* writer.write_string(file_path, content) as the last step of an export
WriteString(op, w, content, wout, before) ==
    /\ calls' = Append(before, Call("write_string", <<w, content>>, {}))
    /\ IF wout = "ok"
       THEN /\ written' = [written EXCEPT ![w] = content]
            /\ ret' = Result(op, w, "ok", NoValue)
       ELSE /\ UNCHANGED written
            /\ ret' = Result(op, w, "WriteError", NoValue)

Fail(op, arg, err, before) ==
    /\ calls' = before
    /\ ret' = Result(op, arg, err, NoValue)
    /\ UNCHANGED written

DumpMd ==
    \E w \in WriterPaths, mode \in MakeModes, drop \in DropModes,
       aout \in AssembleOutcomes \ {"unserializable"}, wout \in WriteOutcomes :
      /\ Constructed(pipeRes)
      /\ IF ~HasPdfInfo(pipeRes)
         THEN Fail("dump_md", w, "KeyError", <<>>)
         ELSE LET pdf_info_list == pipeRes.pdf_info
                  c1 == <<Call("union_make",
                               <<pdf_info_list, mode, drop, ImgPrefix>>, {})>>
                  md_content == Assembled(pdf_info_list, mode, drop,
                                          ImgPrefix, aout)
              IN IF aout = "raise"
                 THEN Fail("dump_md", w, "AssembleError", c1)
                 ELSE WriteString("dump_md", w, md_content, wout, c1)
      /\ UNCHANGED fsDirs
      /\ PipeFrame

\* mutation: the content list is streamed to the writer before it is
\* known to serialize
DumpContentListStreamed ==
    \E w \in WriterPaths, aout \in AssembleOutcomes, wout \in WriteOutcomes :
      /\ Constructed(pipeRes)
      /\ IF ~HasPdfInfo(pipeRes)
         THEN Fail("dump_content_list", w, "KeyError", <<>>)
         ELSE LET pdf_info_list == pipeRes.pdf_info
                  c1 == <<Call("union_make",
                               <<pdf_info_list, STANDARD_FORMAT, DROP_NONE,
                                 ImgPrefix>>, {})>>
                  content_list == Assembled(pdf_info_list, STANDARD_FORMAT,
                                            DROP_NONE, ImgPrefix, aout)
                  c2 == Append(c1, Call("write_string",
                                        <<w, JsonDumps(content_list)>>, {}))
              IN IF aout = "raise"
                 THEN Fail("dump_content_list", w, "AssembleError", c1)
                 ELSE IF ~JsonSerializable(content_list)
                      THEN /\ calls' = c2
                           /\ written' = [written EXCEPT
                                             ![w] = JsonDumps(content_list)]
                           /\ ret' = Result("dump_content_list", w,
                                            "TypeError", NoValue)
                      ELSE WriteString("dump_content_list", w,
                                       JsonDumps(content_list), wout, c1)
      /\ UNCHANGED fsDirs
      /\ PipeFrame

DumpContentList ==
    \E w \in WriterPaths, aout \in AssembleOutcomes, wout \in WriteOutcomes :
      /\ Constructed(pipeRes)
      /\ IF ~HasPdfInfo(pipeRes)
         THEN Fail("dump_content_list", w, "KeyError", <<>>)
         ELSE LET pdf_info_list == pipeRes.pdf_info
                  c1 == <<Call("union_make",
                               <<pdf_info_list, STANDARD_FORMAT, DROP_NONE,
                                 ImgPrefix>>, {})>>
                  content_list == Assembled(pdf_info_list, STANDARD_FORMAT,
                                            DROP_NONE, ImgPrefix, aout)
                  c2 == Append(c1, Call("json.dumps", <<content_list>>, {}))
              IN IF aout = "raise"
                 THEN Fail("dump_content_list", w, "AssembleError", c1)
                 ELSE IF ~JsonSerializable(content_list)
                      THEN Fail("dump_content_list", w, "TypeError", c2)
                      ELSE WriteString("dump_content_list", w,
                                       JsonDumps(content_list), wout, c2)
      /\ UNCHANGED fsDirs
      /\ PipeFrame

\* mutation: the intermediate export looks up 'pdf_info' as the others do
DumpMiddleJsonChecked ==
    \E w \in WriterPaths, wout \in WriteOutcomes :
      /\ Constructed(pipeRes)
      /\ IF ~HasPdfInfo(pipeRes)
         THEN Fail("dump_middle_json", w, "KeyError", <<>>)
         ELSE LET c1 == <<Call("json.dumps", <<pipeRes>>, {})>>
              IN IF ~JsonSerializable(pipeRes)
                 THEN Fail("dump_middle_json", w, "TypeError", c1)
                 ELSE WriteString("dump_middle_json", w, JsonDumps(pipeRes),
                                  wout, c1)
      /\ UNCHANGED fsDirs
      /\ PipeFrame

DumpMiddleJson ==
    \E w \in WriterPaths, wout \in WriteOutcomes :
      /\ Constructed(pipeRes)
      /\ LET c1 == <<Call("json.dumps", <<pipeRes>>, {})>>
         IN IF ~JsonSerializable(pipeRes)
            THEN Fail("dump_middle_json", w, "TypeError", c1)
            ELSE WriteString("dump_middle_json", w, JsonDumps(pipeRes),
                             wout, c1)
      /\ UNCHANGED fsDirs
      /\ PipeFrame

RenderOutcomes == {"ok", "raise"}

\* the common body of draw_layout, draw_span and draw_line_sort: the
\* directories, collaborator calls and outcome it leaves behind
DrawOverlay(collaborator, file_path, rout, dirs, res, bits) ==
    LET dir_name == Dirname(file_path)
        base_name == Basename(file_path)
        made == IF PathExists(dir_name, dirs)
                THEN [ok |-> TRUE, dirs |-> dirs]
                ELSE IF MakedirsOk(dir_name)
                     THEN [ok |-> TRUE, dirs |-> Makedirs(dir_name, dirs)]
                     ELSE [ok |-> FALSE, dirs |-> dirs]
    IN IF ~made.ok
       THEN [dirs |-> made.dirs, calls |-> <<>>, status |-> "FileNotFoundError"]
       ELSE IF ~HasPdfInfo(res)
            THEN [dirs |-> made.dirs, calls |-> <<>>, status |-> "KeyError"]
            ELSE [dirs |-> made.dirs,
                  calls |-> <<Call(collaborator,
                                   <<res.pdf_info, bits, dir_name, base_name>>,
                                   {})>>,
                  status |-> IF rout = "ok" THEN "ok" ELSE "RenderError"]

DrawLayout ==
    \E file_path \in FilePaths, rout \in RenderOutcomes :
      LET r == DrawOverlay("draw_layout_bbox", file_path, rout, fsDirs,
                           pipeRes, DataBitsOf)
      IN /\ Constructed(pipeRes)
         /\ fsDirs' = r.dirs
         /\ calls' = r.calls
         /\ ret' = Result("draw_layout", file_path, r.status, NoValue)
         /\ UNCHANGED written
         /\ PipeFrame

DrawSpan ==
    \E file_path \in FilePaths, rout \in RenderOutcomes :
      LET r == DrawOverlay("draw_span_bbox", file_path, rout, fsDirs,
                           pipeRes, DataBitsOf)
      IN /\ Constructed(pipeRes)
         /\ fsDirs' = r.dirs
         /\ calls' = r.calls
         /\ ret' = Result("draw_span", file_path, r.status, NoValue)
         /\ UNCHANGED written
         /\ PipeFrame

DrawLineSort ==
    \E file_path \in FilePaths, rout \in RenderOutcomes :
      LET r == DrawOverlay("draw_line_sort_bbox", file_path, rout, fsDirs,
                           pipeRes, DataBitsOf)
      IN /\ Constructed(pipeRes)
         /\ fsDirs' = r.dirs
         /\ calls' = r.calls
         /\ ret' = Result("draw_line_sort", file_path, r.status, NoValue)
         /\ UNCHANGED written
         /\ PipeFrame

\* JsonCompressor.compress_json and its inverse
CompressJson(obj) == [kind |-> "compressed", body |-> obj]
DecompressJson(c) == c.body

\* return JsonCompressor.compress_json(self.pdf_mid_data)
GetCompressPdfMidData ==
    /\ Constructed(pipeRes)
    /\ IF "pdf_mid_data" \in PipeResultAttrs
       THEN /\ calls' = <<Call("compress_json", <<pipeRes>>, {})>>
            /\ ret' = Result("get_compress_pdf_mid_data", NoValue, "ok",
                             CompressJson(pipeRes))
       ELSE /\ calls' = <<>>
            /\ ret' = Result("get_compress_pdf_mid_data", NoValue,
                             "AttributeError", NoValue)
    /\ UNCHANGED <<written, fsDirs>>
    /\ PipeFrame

PipeNext ==
    \/ PipeResultInit
    \/ DumpMd
    \/ DumpContentList
    \/ DumpMiddleJson
    \/ DrawLayout
    \/ DrawSpan
    \/ DrawLineSort
    \/ GetCompressPdfMidData

PipeSpec == Init /\ [][PipeNext]_vars

Next == DatasetNext \/ PipeNext

Spec == Init /\ [][Next]_vars

\* ========================================================================
\* Properties of the Dataset variants (checked under DatasetSpec)
\* ========================================================================

\* C1: get_page(index) returns a page only when 0 <= index < length();
\* every other index, negative ones included, fails with an index error.
C1_GetPageRangeChecked ==
    ret.op = "get_page" =>
        IF 0 <= ret.arg /\ ret.arg < Len(records)
        THEN ret.status = "ok"
        ELSE ret.status = "IndexError"

\* C2: the file dump_to_file(path) leaves at path is the document that
\* raw_bytes() holds, whatever was drawn on the pages before.
C2_DumpIsCanonical ==
    ret.op = "dump_to_file" =>
        fsFiles[ret.arg] = FitzSave(FitzOpen(DataBitsOf))

\* the handles construction creates for a document of n pages
HandlesOfPages(n) == [i \in 1..n |-> i]

\* C7: the page sequence is fixed at construction: length() is the number
\* of handles created then, get_page(i) for 0 <= i < length() is the handle
\* created for page i, and an iteration pass yields them in page order.
C7_PageSequenceFixed ==
    /\ records = HandlesOfPages(dataBits.pages)
    /\ ret.op = "len" => ret.value = dataBits.pages
    /\ (ret.op = "get_page" /\ 0 <= ret.arg /\ ret.arg < dataBits.pages) =>
           /\ ret.status = "ok"
           /\ ret.value = HandlesOfPages(dataBits.pages)[ret.arg + 1]
    /\ it.out = SubSeq(HandlesOfPages(dataBits.pages), 1, it.pos)
    /\ it.state = "exhausted" => it.out = HandlesOfPages(dataBits.pages)
    /\ (ret.op = "next" /\ ret.status = "ok") => ret.value = it.pos

C7_Witness ==
    /\ it.state = "exhausted"
    /\ Len(it.out) = 2
    /\ ret.op = "get_page" /\ ret.arg = 1 /\ ret.status = "ok"
    /\ \E p \in DumpPaths : fsFiles[p] # NoFile

\* C8: classify() of a converted dataset is OCR with no call of the
\* heuristic; of a direct dataset it is the heuristic's answer for the raw
\* bytes; it is a supported method and it leaves the dataset unchanged.
C8_ClassifyState ==
    /\ ret.op = "classify" =>
         /\ variant = "converted" => (ret.value = OCR /\ calls = <<>>)
         /\ variant = "direct" =>
              /\ Len(calls) = 1
              /\ calls[1].fn = "classify"
              /\ calls[1].args = <<DataBitsOf>>
              /\ ret.value = calls[1].result
         /\ ret.value \in (IF variant = "direct" THEN {OCR, TXT} ELSE {OCR})
    /\ ret.op = "supported_methods" =>
         ret.value = (IF variant = "direct" THEN {OCR, TXT} ELSE {OCR})

C8_Classify ==
    /\ []C8_ClassifyState
    /\ [][ret'.op = "classify" => UNCHANGED <<dsVars, it, fsDirs, fsFiles>>]_vars

C8_Witness ==
    /\ variant = "converted"
    /\ ret.op = "classify"
    /\ ret.value = OCR

\* C9: raw_bytes() is the same in every state: the input bytes of a direct
\* dataset, the converted one-page document of a converted one, never the
\* image bytes.
C9_RawBytesState ==
    /\ variant = "direct" => DataBitsOf = rawData
    /\ variant = "converted" =>
         /\ DataBitsOf = ConvertToPdf(rawData)
         /\ DataBitsOf # rawData
         /\ DataBitsOf.fmt = "pdf" /\ DataBitsOf.pages = 1
    /\ ret.op = "data_bits" =>
         ret.value = (IF variant = "direct" THEN rawData
                                            ELSE ConvertToPdf(rawData))

C9_RawBytes ==
    /\ []C9_RawBytesState
    /\ [][DataBitsOf' = DataBitsOf]_vars

C9_Witness ==
    /\ variant = "converted"
    /\ ret.op = "data_bits"
    /\ TotalStamps(rawFitz) > 0
    /\ \E p \in DumpPaths : fsFiles[p] # NoFile

\* C10: apply(proc, *args, **kwargs) calls proc once with the dataset
\* first, then args in order, and the keyword arguments, and returns what
\* proc returns; both variants alike.
C10_Apply ==
    ret.op = "apply" =>
        /\ Len(calls) = 1
        /\ calls[1].fn = "proc"
        /\ calls[1].args = <<Self>> \o ret.arg[1]
        /\ calls[1].kwargs = ret.arg[2]
        /\ IF calls[1].result = "raise"
           THEN ret.status = "ProcError"
           ELSE ret.status = "ok" /\ ret.value = calls[1].result

C10_Witness ==
    /\ variant = "direct"
    /\ ret.op = "apply"
    /\ Len(ret.arg[1]) = 2
    /\ ret.arg[2] # {}
    /\ ret.status = "ok"

\* ========================================================================
\* Properties of PipeResult (checked under PipeSpec)
\* ========================================================================
WriterExports == {"dump_md", "dump_content_list", "dump_middle_json"}
OverlayExports == {"draw_layout", "draw_span", "draw_line_sort"}
WriteCalls == {i \in 1..Len(calls) : calls[i].fn = "write_string"}
WellFormed(res) ==
    Constructed(res) /\ HasPdfInfo(res) /\ JsonSerializable(res)

\* C3: for a well-formed analysis result compress_intermediate() completes
\* and returns an encoding that decompresses to the result.
C3_CompressRoundTrip ==
    (ret.op = "get_compress_pdf_mid_data" /\ WellFormed(pipeRes)) =>
        /\ ret.status = "ok"
        /\ DecompressJson(ret.value) = pipeRes

\* C4 as stated: without a 'pdf_info' entry every export operation fails
\* with the malformed-result error and writes nothing.
C4_AllExportsFail ==
    (ret.op \in WriterExports \cup OverlayExports /\ ~HasPdfInfo(pipeRes)) =>
        /\ ret.status = "KeyError"
        /\ calls = <<>>

\* C4 amended: without a 'pdf_info' entry export_markdown and
\* export_content_list fail with the missing-key error before any
\* collaborator or writer is called; the three overlay renderers fail
\* without calling their collaborator; export_intermediate does not look
\* for 'pdf_info', it serializes the result and calls write_string once.
C4_MalformedExports ==
    (Constructed(pipeRes) /\ ~HasPdfInfo(pipeRes)) =>
        /\ ret.op \in {"dump_md", "dump_content_list"} =>
             (ret.status = "KeyError" /\ calls = <<>>)
        /\ ret.op \in OverlayExports =>
             /\ calls = <<>>
             /\ ret.status =
                  (IF Dirname(ret.arg) = <<>> THEN "FileNotFoundError"
                                              ELSE "KeyError")
        /\ (ret.op = "dump_middle_json" /\ JsonSerializable(pipeRes)) =>
             /\ ret.status \in {"ok", "WriteError"}
             /\ Len(calls) = 2
             /\ calls[2] = Call("write_string",
                                <<ret.arg, JsonDumps(pipeRes)>>, {})
             /\ ret.status = "ok" => written[ret.arg] = JsonDumps(pipeRes)

C4_Witness ==
    /\ Constructed(pipeRes)
    /\ ~HasPdfInfo(pipeRes)
    /\ ret.op = "dump_middle_json"
    /\ ret.status = "ok"
    /\ written[ret.arg] = JsonDumps(pipeRes)

\* C5: a writer-based export calls write_string at most once, as its last
\* step and with the fully assembled and serialized artifact; when lookup,
\* assembly or serialization fails, write_string has not been called.
C5_SingleBufferedWrite ==
    ret.op \in WriterExports =>
        /\ Cardinality(WriteCalls) <= 1
        /\ \A i \in WriteCalls :
             /\ i = Len(calls)
             /\ i > 1
             /\ calls[i].args[1] = ret.arg
             /\ calls[i].args[2].kind =
                  (IF ret.op = "dump_md" THEN "assembled" ELSE "json")
             /\ ret.op # "dump_md" =>
                  /\ calls[i - 1].fn = "json.dumps"
                  /\ calls[i].args[2] = JsonDumps(calls[i - 1].args[1])
             /\ ret.op # "dump_middle_json" => calls[1].fn = "union_make"
             /\ ret.status \in {"ok", "WriteError"}
        /\ ret.status \in {"KeyError", "AssembleError", "TypeError"} =>
             WriteCalls = {}
        /\ ret.status = "ok" => Cardinality(WriteCalls) = 1

C5_Witness ==
    /\ ret.op = "dump_content_list"
    /\ ret.status = "TypeError"
    /\ Len(calls) = 2
    /\ WriteCalls = {}

\* C6: for every destination path each overlay renderer ensures that the
\* directory exists and then calls its collaborator once with
\* (pdf_info, raw bytes, dirname(path), basename(path)).
C6_OverlayAlwaysRenders ==
    (ret.op \in OverlayExports /\ HasPdfInfo(pipeRes)) =>
        /\ Len(calls) = 1
        /\ calls[1].args = <<pipeRes.pdf_info, DataBitsOf,
                             Dirname(ret.arg), Basename(ret.arg)>>
        /\ PathExists(Dirname(ret.arg), fsDirs)

====
